---- MODULE Spec2Model ----
(***************************************************************************)
(* Cost Manager: the IndexedDB wrapper (idb.js / idb_vanilla.js), its      *)
(* currency helpers (helperFunctions.js) and the Dashboard component.      *)
(*                                                                         *)
(* JavaScript numbers are modelled as exact rationals extended with NaN    *)
(* and the two infinities; a value that is not of type 'number' (a         *)
(* non-numeric string) is the fourth kind.  Floating-point rounding error  *)
(* is therefore abstracted away: 120 / 0.6 is exactly 200.                 *)
(***************************************************************************)
EXTENDS Integers, Sequences, FiniteSets, TLC

\* ------------------------------------------------------------------ bounds

\* The costs store holds at most MaxCosts records.
MaxCosts == 2

\* At most MaxFetches network retrievals are performed in one behaviour.
MaxFetches == 2

\* The Dashboard calls loadData at most MaxLoads times in one behaviour.
MaxLoads == 3

\* ---------------------------------------------------------------- numbers

Abs(x) == IF x < 0 THEN -x ELSE x

Sign(x) == IF x < 0 THEN -1 ELSE 1

RECURSIVE GCD(_, _)
GCD(a, b) == IF b = 0 THEN a ELSE GCD(b, a % b)

\* The finite number n/d (d > 0), in lowest terms.
Fin(n, d) ==
    LET g == GCD(Abs(n), d)
    IN  [t |-> "fin", n |-> n \div g, d |-> d \div g]

NaN == [t |-> "nan", n |-> 0, d |-> 1]

\* Infinity (s = 1) and -Infinity (s = -1).
Inf(s) == [t |-> "inf", n |-> s, d |-> 1]

\* A value whose typeof is not 'number': a non-numeric string.
NonNumber == [t |-> "str", n |-> 0, d |-> 1]

Zero == Fin(0, 1)

\* typeof x === 'number'
IsNumberType(x) == x.t # "str"

\* isNaN(x): ToNumber of a non-numeric string is NaN.
isNaN(x) == x.t \in {"nan", "str"}

\* a + b on numbers.
Add(a, b) ==
    CASE isNaN(a) \/ isNaN(b) -> NaN
      [] a.t = "inf" /\ b.t = "inf" -> IF a.n = b.n THEN a ELSE NaN
      [] a.t = "inf" -> a
      [] b.t = "inf" -> b
      [] OTHER -> Fin(a.n * b.d + b.n * a.d, a.d * b.d)

\* a * b, operands coerced with ToNumber.
Mul(a, b) ==
    CASE isNaN(a) \/ isNaN(b) -> NaN
      [] a.t = "inf" /\ b.t = "inf" -> Inf(a.n * b.n)
      [] a.t = "inf" -> IF b.n = 0 THEN NaN ELSE Inf(a.n * Sign(b.n))
      [] b.t = "inf" -> IF a.n = 0 THEN NaN ELSE Inf(b.n * Sign(a.n))
      [] OTHER -> Fin(a.n * b.n, a.d * b.d)

\* a / b, operands coerced with ToNumber.
Div(a, b) ==
    CASE isNaN(a) \/ isNaN(b) -> NaN
      [] a.t = "inf" /\ b.t = "inf" -> NaN
      [] a.t = "inf" -> Inf(a.n * Sign(b.n))
      [] b.t = "inf" -> Zero
      [] b.n = 0 -> IF a.n = 0 THEN NaN ELSE Inf(Sign(a.n))
      [] OTHER -> Fin(a.n * b.d * Sign(b.n), a.d * Abs(b.n))

\* Math.round(x): the nearest integer, halves towards +Infinity.
MathRound(x) ==
    IF x.t = "fin" THEN Fin((2 * x.n + x.d) \div (2 * x.d), 1) ELSE x

\* Math.round(x * 100) / 100
Round2(x) == Div(MathRound(Mul(x, Fin(100, 1))), Fin(100, 1))

\* ------------------------------------------------------- helperFunctions.js

DEFAULT_EXCHANGE_URL == "https://shaidahari.github.io/exchaneRates_json/exchange-rates.json"

\* A rate table is a function from the currency codes it holds to values;
\* table[code] === undefined is code \notin DOMAIN table.
Has(table, code) == code \in DOMAIN table

\* The normalization that lets EUR win when both spellings are present.
normalizeRates_eurWins(rates) ==
    IF Has(rates, "EUR")
    THEN [c \in DOMAIN rates \cup {"EURO"} |->
              IF c = "EURO" THEN rates["EUR"] ELSE rates[c]]
    ELSE IF Has(rates, "EURO")
    THEN rates @@ ("EUR" :> rates["EURO"])
    ELSE rates

\* The normalization that keeps one spelling when both are present.
normalizeRates_oneSpelling(rates) ==
    IF Has(rates, "EUR") /\ Has(rates, "EURO")
    THEN [c \in DOMAIN rates \ {"EURO"} |-> rates[c]]
    ELSE IF Has(rates, "EURO")
    THEN rates @@ ("EUR" :> rates["EURO"])
    ELSE IF Has(rates, "EUR")
    THEN rates @@ ("EURO" :> rates["EUR"])
    ELSE rates

\* normalizeRates: const normalized = { ...rates }, then each of EUR and
\* EURO that is undefined is set from the other, and normalized is returned.
normalizeRates(rates) ==
    LET withEUR ==
            IF Has(rates, "EURO") /\ ~Has(rates, "EUR")
            THEN rates @@ ("EUR" :> rates["EURO"])
            ELSE rates
    IN  IF Has(withEUR, "EUR") /\ ~Has(withEUR, "EURO")
        THEN withEUR @@ ("EURO" :> withEUR["EUR"])
        ELSE withEUR

\* The conversion answering 0 when a rate is missing.
convertCurrency_zeroOnMissing(amount, fromCurrency, toCurrency, rates) ==
    IF fromCurrency = toCurrency
    THEN amount
    ELSE IF ~IsNumberType(amount) \/ isNaN(amount)
    THEN Zero
    ELSE LET normalizedRates == normalizeRates(rates)
         IN  IF ~Has(normalizedRates, fromCurrency) \/ ~Has(normalizedRates, toCurrency)
             THEN Zero
             ELSE Mul(Div(amount, normalizedRates[fromCurrency]),
                      normalizedRates[toCurrency])

\* The conversion that takes the source currency for the base: amount * toRate.
convertCurrency_fromBase(amount, fromCurrency, toCurrency, rates) ==
    IF fromCurrency = toCurrency
    THEN amount
    ELSE IF ~IsNumberType(amount) \/ isNaN(amount)
    THEN Zero
    ELSE LET normalizedRates == normalizeRates(rates)
         IN  IF ~Has(normalizedRates, fromCurrency) \/ ~Has(normalizedRates, toCurrency)
             THEN amount
             ELSE Mul(amount, normalizedRates[toCurrency])

convertCurrency(amount, fromCurrency, toCurrency, rates) ==
    IF fromCurrency = toCurrency
    THEN amount
    ELSE IF ~IsNumberType(amount) \/ isNaN(amount)
    THEN Zero
    ELSE LET normalizedRates == normalizeRates(rates)
         IN  IF ~Has(normalizedRates, fromCurrency) \/ ~Has(normalizedRates, toCurrency)
             THEN amount
             ELSE Mul(Div(amount, normalizedRates[fromCurrency]),
                      normalizedRates[toCurrency])

\* The early return left out.
NoCosts_never(costsArg) == FALSE

\* The cost records that do not need rates: !costs || costs.length === 0.
NoCosts(costsArg) == Len(costsArg) = 0

\* The retrieval without the check of response.ok: the body of an error
\* status is taken for the rates.
ResponseError_ignoresStatus(resp) ==
    CASE resp.kind = "neterr" -> "TypeError: Failed to fetch"
      [] resp.kind = "badjson" -> "SyntaxError: Unexpected token"
      [] resp.kind = "json" /\ resp.type # "object" ->
            "Invalid exchange rates format received from server"
      [] OTHER -> "none"

\* What the retrieval of a response throws, "none" when it throws nothing.
\* A response is a transport failure, an HTTP status with ok false, a body
\* that is no JSON, or a parsed JSON value of some type.
ResponseError(resp) ==
    CASE resp.kind = "neterr" -> "TypeError: Failed to fetch"
      [] resp.kind = "http" -> "Failed to fetch exchange rates: HTTP status"
      [] resp.kind = "badjson" -> "SyntaxError: Unexpected token"
      [] resp.kind = "json" /\ resp.type # "object" ->
            "Invalid exchange rates format received from server"
      [] OTHER -> "none"

\* costs.map(cost => ({...cost, convertedAmount: convertCurrency(...)}))
convertCosts(costsArg, currency, rates) ==
    [i \in DOMAIN costsArg |->
        ("convertedAmount" :>
            convertCurrency(costsArg[i].sum, costsArg[i].currency, currency, rates))
        @@ costsArg[i]]

\* ------------------------------------------------------------------- data

\* A stored Date, by what its local-time getters return: getFullYear(),
\* getMonth() (0 to 11) and getDate().
Date(y, m0, d) == [year |-> y, month |-> m0, day |-> d]

getFullYear(date) == date.year

getMonth(date) == date.month

getDate(date) == date.day

\* The date a lies before the date b.
Before(a, b) ==
    \/ a.year < b.year
    \/ a.year = b.year /\ a.month < b.month
    \/ a.year = b.year /\ a.month = b.month /\ a.day < b.day

\* The values the clock shows when addCost runs.
Dates ==
    { Date(2025, 8, 12), Date(2025, 11, 18), Date(2024, 8, 12) }

\* The cost objects callers pass to addCost; sum is of type number.  One
\* of them carries a date of the caller's own.
Drafts ==
    { [sum |-> Fin(200, 1), currency |-> "USD", category |-> "FOOD",
       description |-> "Milk 3%"],
      [sum |-> Fin(120, 1), currency |-> "GBP", category |-> "Education",
       description |-> "Zoom License", date |-> Date(2024, 0, 1)],
      [sum |-> NaN, currency |-> "USD", category |-> "FOOD",
       description |-> "unparsed amount"] }

\* The periods and currencies reports are asked for.
ReportYears == {2025}

ReportMonths == {9}

ReportCurrencies == {"USD", "EUR"}

CUSTOM_URL == "https://rates.example/custom.json"

SettingKeys == {"exchangeRateUrl"}

SettingValues == {"", CUSTOM_URL}

\* The rate tables the rate source serves.
RatesFull ==
    ("USD" :> Fin(1, 1)) @@ ("GBP" :> Fin(6, 10)) @@ ("EURO" :> Fin(7, 10))
        @@ ("ILS" :> Fin(34, 10))

RatesUsdGbp == ("USD" :> Fin(1, 1)) @@ ("GBP" :> Fin(6, 10))

\* A payload that holds its table one level down: {"base": "USD",
\* "rates": {...}}.  Neither of its values is a number.
RatesNested == ("base" :> NonNumber) @@ ("rates" :> NonNumber)

NoRates == [c \in {} |-> Zero]

Responses ==
    { [kind |-> "neterr", type |-> "none", rates |-> NoRates],
      [kind |-> "http", type |-> "none", rates |-> NoRates],
      [kind |-> "badjson", type |-> "none", rates |-> NoRates],
      [kind |-> "json", type |-> "null", rates |-> NoRates],
      [kind |-> "json", type |-> "number", rates |-> NoRates],
      [kind |-> "json", type |-> "object", rates |-> RatesFull],
      [kind |-> "json", type |-> "object", rates |-> RatesUsdGbp],
      [kind |-> "json", type |-> "object", rates |-> RatesNested] }

\* --------------------------------------------------------- idb.js: reports

\* The filter with the month taken as getMonth() gives it, from 0.
inMonth_zeroBased(cost, year, month) ==
    getFullYear(cost.date) = year /\ getMonth(cost.date) = month

\* getReport and getPieChartData: the filter on year and month (1 to 12).
inMonth(cost, year, month) ==
    getFullYear(cost.date) = year /\ getMonth(cost.date) + 1 = month

\* getBarChartData: the filter on the year.
inYear(cost, year) == getFullYear(cost.date) = year

\* allCosts.filter(...) of the three report builders; month is unused by
\* getBarChartData.
filterCosts(op, allCosts, year, month) ==
    IF op = "getBarChartData"
    THEN SelectSeq(allCosts, LAMBDA cost : inYear(cost, year))
    ELSE SelectSeq(allCosts, LAMBDA cost : inMonth(cost, year, month))

\* getReport: one line item of the report.
reportCost(cost) ==
    [sum |-> cost.sum, currency |-> cost.currency, category |-> cost.category,
     description |-> cost.description, date |-> [day |-> getDate(cost.date)]]

\* filteredCosts.map(...): the costs of the report.
reportCosts(filteredCosts) ==
    [i \in DOMAIN filteredCosts |-> reportCost(filteredCosts[i])]

\* The reduce adding the stored sums instead of the converted amounts.
RECURSIVE reduceTotal_unconverted(_, _)
reduceTotal_unconverted(costsWithConverted, sum) ==
    IF costsWithConverted = <<>>
    THEN sum
    ELSE reduceTotal_unconverted(Tail(costsWithConverted),
                                 Add(sum, Head(costsWithConverted).sum))

\* costsWithConverted.reduce((sum, cost) => sum + cost.convertedAmount, 0)
RECURSIVE reduceTotal(_, _)
reduceTotal(costsWithConverted, sum) ==
    IF costsWithConverted = <<>>
    THEN sum
    ELSE reduceTotal(Tail(costsWithConverted),
                     Add(sum, Head(costsWithConverted).convertedAmount))

\* The report handing out the converted costs as its line items.
buildReport_converted(year, month, currency, reportCostsArg, costsWithConverted) ==
    [year |-> year, month |-> month, costs |-> costsWithConverted,
     total |-> [currency |-> currency,
                total |-> Round2(reduceTotal(costsWithConverted, Zero))]]

\* getReport: the report object it resolves with.
buildReport(year, month, currency, reportCostsArg, costsWithConverted) ==
    [year |-> year, month |-> month, costs |-> reportCostsArg,
     total |-> [currency |-> currency,
                total |-> Round2(reduceTotal(costsWithConverted, Zero))]]

\* !x for a number x: 0 and NaN are falsy.
Falsy(x) == x.t = "nan" \/ (x.t = "fin" /\ x.n = 0)

\* getPieChartData: one pass of the forEach over costsWithConverted.  The
\* object categoryTotals is its keys in insertion order and their values.
categoryStep(totals, cost) ==
    LET category == cost.category
        known == category \in DOMAIN totals.value
        start ==
            IF ~known \/ Falsy(totals.value[category])
            THEN Zero
            ELSE totals.value[category]
    IN  [keys |-> IF known THEN totals.keys ELSE Append(totals.keys, category),
         value |-> (category :> Add(start, cost.convertedAmount)) @@ totals.value]

RECURSIVE categoryTotals(_, _)
categoryTotals(costsWithConverted, totals) ==
    IF costsWithConverted = <<>>
    THEN totals
    ELSE categoryTotals(Tail(costsWithConverted),
                        categoryStep(totals, Head(costsWithConverted)))

EmptyObject == [keys |-> <<>>, value |-> [c \in {} |-> Zero]]

\* Object.keys(categoryTotals).map(...)
pieData(costsWithConverted, currency) ==
    LET totals == categoryTotals(costsWithConverted, EmptyObject)
    IN  [i \in DOMAIN totals.keys |->
            [category |-> totals.keys[i],
             amount |-> Round2(totals.value[totals.keys[i]]),
             currency |-> currency]]

\* getBarChartData: monthlyTotals after the forEach, from twelve zeros.
RECURSIVE monthlyTotals(_, _)
monthlyTotals(costsWithConverted, totals) ==
    IF costsWithConverted = <<>>
    THEN totals
    ELSE LET cost == Head(costsWithConverted)
             costMonth == getMonth(cost.date) + 1
         IN  monthlyTotals(Tail(costsWithConverted),
                 [totals EXCEPT ![costMonth] = Add(@, cost.convertedAmount)])

\* The bar data built as the pie data is: only the months that have costs.
barData_sparse(costsWithConverted, currency) ==
    LET months ==
            SelectSeq([m \in 1..12 |-> m],
                      LAMBDA m : \E i \in DOMAIN costsWithConverted :
                                    getMonth(costsWithConverted[i].date) + 1 = m)
        totals == monthlyTotals(costsWithConverted, [m \in 1..12 |-> Zero])
    IN  [i \in DOMAIN months |->
            [month |-> months[i], amount |-> Round2(totals[months[i]]),
             currency |-> currency]]

\* Object.keys(monthlyTotals).map(...): integer keys come in ascending order.
barData(costsWithConverted, currency) ==
    LET totals == monthlyTotals(costsWithConverted, [m \in 1..12 |-> Zero])
    IN  [m \in 1..12 |->
            [month |-> m, amount |-> Round2(totals[m]), currency |-> currency]]

\* What a report builder resolves with, from the converted costs.
buildResult(op, year, month, currency, reportCostsArg, costsWithConverted) ==
    CASE op = "getReport" ->
            buildReport(year, month, currency, reportCostsArg, costsWithConverted)
      [] op = "getPieChartData" -> pieData(costsWithConverted, currency)
      [] OTHER -> barData(costsWithConverted, currency)

\* The default taken only for a setting that is absent: customUrl ?? DEFAULT.
exchangeRatesUrl_nullish(settingsArg, readOk) ==
    IF readOk /\ "exchangeRateUrl" \in DOMAIN settingsArg
    THEN settingsArg["exchangeRateUrl"]
    ELSE DEFAULT_EXCHANGE_URL

\* The setting never looked at: the default address always.
exchangeRatesUrl_defaultOnly(settingsArg, readOk) == DEFAULT_EXCHANGE_URL

\* getExchangeRatesUrl: customUrl || DEFAULT_EXCHANGE_URL, the default too
\* when the settings read fails.
exchangeRatesUrl(settingsArg, readOk) ==
    IF readOk /\ "exchangeRateUrl" \in DOMAIN settingsArg
              /\ settingsArg["exchangeRateUrl"] # ""
    THEN settingsArg["exchangeRateUrl"]
    ELSE DEFAULT_EXCHANGE_URL

\* ------------------------------------------------------------------ state

VARIABLES
    dbVersion,          \* the version of the database, 0 while it does not exist
    objectStoreNames,   \* db.objectStoreNames
    wrapper,            \* openCostsDB has resolved with a dbWrapper
    costs,              \* the costs store: record i is stored under key i
    settings,           \* the settings store: key -> value, for the keys put
    call,               \* the report builder in flight or last finished
    fetchCount,         \* the calls of fetch() so far
    urlReadCount,       \* the calls of getExchangeRatesUrl() so far
    conv,               \* a direct call of convertCurrency: arguments, result
    ret,                \* the last settled call of a store operation
    norm,               \* a direct call of normalizeRates: argument, result
    dash                \* the state of the Dashboard component

vars ==
    <<dbVersion, objectStoreNames, wrapper, costs, settings, call, fetchCount,
      urlReadCount, conv, ret, norm, dash>>

DB_VERSION == 1

NoResponse == [kind |-> "none", type |-> "none", rates |-> NoRates]

NoCall ==
    [pc |-> "idle", op |-> "none", year |-> 0, month |-> 0, currency |-> "",
     allCosts |-> <<>>, filteredCosts |-> <<>>, reportCosts |-> <<>>,
     exchangeUrl |-> "", fetchCount0 |-> 0, urlReadCount0 |-> 0,
     response |-> NoResponse, status |-> "none", value |-> <<>>, error |-> "none"]

NoConv ==
    [amount |-> Zero, fromCurrency |-> "", toCurrency |-> "", rates |-> NoRates,
     called |-> FALSE, result |-> Zero, backCalled |-> FALSE, back |-> Zero]

\* No store operation has settled yet.
NoRet == [op |-> "none", status |-> "none"]

\* normalizeRates has not been called.
NoNorm == [called |-> FALSE]

\* A value that is a string or null: what getSetting resolves with, and
\* the error the Dashboard shows.
Null == [t |-> "null", s |-> ""]

StringValue(s) == [t |-> "string", s |-> s]

\* The Dashboard is not mounted.
NoDash ==
    [mounted |-> FALSE, selectedMonth |-> 0, selectedYear |-> 0,
     displayCurrency |-> "", monthlyCosts |-> <<>>, allCosts |-> <<>>,
     categoryData |-> <<>>, monthlyData |-> <<>>, loading |-> FALSE,
     error |-> Null, monthlyTotal |-> Zero, loads |-> {}, totals |-> {},
     unhandled |-> FALSE, loadCount |-> 0]

Init ==
    /\ dbVersion = 0
    /\ objectStoreNames = {}
    /\ wrapper = FALSE
    /\ costs = <<>>
    /\ settings = [k \in {} |-> ""]
    /\ call = NoCall
    /\ fetchCount = 0
    /\ urlReadCount = 0
    /\ conv = NoConv
    /\ ret = NoRet
    /\ norm = NoNorm
    /\ dash = NoDash

\* ---------------------------------------------------------------- actions

\* The schema set up anew on every open: both stores deleted and created.
openCostsDB_recreate ==
    /\ objectStoreNames' = {"costs", "settings"}
    /\ dbVersion' = DB_VERSION
    /\ wrapper' = TRUE
    /\ costs' = <<>>
    /\ settings' = [k \in {} |-> ""]
    /\ UNCHANGED <<norm, dash, call, fetchCount, urlReadCount, conv, ret>>

\* indexedDB.open(name, version): onupgradeneeded runs when the stored
\* version is older and creates each object store that is absent; onsuccess
\* resolves with the wrapper.
openCostsDB ==
    /\ objectStoreNames' =
            IF dbVersion < DB_VERSION
            THEN objectStoreNames
                    \cup (IF "costs" \notin objectStoreNames THEN {"costs"} ELSE {})
                    \cup (IF "settings" \notin objectStoreNames THEN {"settings"} ELSE {})
            ELSE objectStoreNames
    /\ dbVersion' = DB_VERSION
    /\ wrapper' = TRUE
    /\ UNCHANGED <<norm, dash, costs, settings, call, fetchCount, urlReadCount, conv, ret>>

\* The record dated by the caller when the caller passed a date:
\* date: cost.date || new Date().
costWithDate_callerDate(cost, now) ==
    [sum |-> cost.sum, currency |-> cost.currency, category |-> cost.category,
     description |-> cost.description,
     date |-> IF "date" \in DOMAIN cost THEN cost.date ELSE now]

\* addCost: the record handed to store.add, dated by new Date().
costWithDate(cost, now) ==
    [sum |-> cost.sum, currency |-> cost.currency, category |-> cost.category,
     description |-> cost.description, date |-> now]

\* The promise resolved with the object the caller passed.
addCostResult_argument(cost, now, key) == cost

\* What addCost resolves with: costWithDate itself.  The store keeps its
\* keys out of line (autoIncrement without a keyPath), so store.add leaves
\* the object as it is and the key it assigned is not part of it.
addCostResult(cost, now, key) == costWithDate(cost, now)

\* store.add replaced by a put under the last key given out.
addCost_sameKey(cost, now) ==
    /\ wrapper
    /\ Len(costs) < MaxCosts
    /\ \A k \in DOMAIN costs : ~Before(now, costs[k].date)
    /\ costs' = IF costs = <<>>
                THEN <<costWithDate(cost, now)>>
                ELSE [costs EXCEPT ![Len(costs)] = costWithDate(cost, now)]
    /\ ret' = [op |-> "addCost", cost |-> cost, now |-> now,
               key |-> IF costs = <<>> THEN 1 ELSE Len(costs),
               status |-> "resolved",
               value |-> addCostResult(cost, now, Len(costs))]
    /\ UNCHANGED <<norm, dash, dbVersion, objectStoreNames, wrapper, settings, call,
                   fetchCount, urlReadCount, conv>>

\* addCost: store.add(costWithDate) puts the record under the next key of
\* the key generator, which is one more than the number of records added so
\* far (the wrapper deletes no record), and the promise resolves.  The
\* clock new Date() reads does not run backwards.
addCost(cost, now) ==
    /\ wrapper
    /\ Len(costs) < MaxCosts
    /\ \A k \in DOMAIN costs : ~Before(now, costs[k].date)
    /\ costs' = Append(costs, costWithDate(cost, now))
    /\ ret' = [op |-> "addCost", cost |-> cost, now |-> now,
               key |-> Len(costs) + 1, status |-> "resolved",
               value |-> addCostResult(cost, now, Len(costs) + 1)]
    /\ UNCHANGED <<norm, dash, dbVersion, objectStoreNames, wrapper, settings, call,
                   fetchCount, urlReadCount, conv>>

\* setSetting: store.put({key, value}) on the keyPath 'key'.
setSetting(key, value) ==
    /\ wrapper
    /\ settings' = (key :> value) @@ settings
    /\ UNCHANGED <<norm, dash, dbVersion, objectStoreNames, wrapper, costs, call,
                   fetchCount, urlReadCount, conv, ret>>

\* A report builder up to its first suspension: store.getAll(), the filter,
\* the line items, and fetchAndConvertWithUrl up to its early return or to
\* its call of getExchangeRatesUrl.
startReport(op, year, month, currency) ==
    LET allCosts == costs
        filteredCosts == filterCosts(op, allCosts, year, month)
        started ==
            [NoCall EXCEPT
                !.op = op, !.year = year, !.month = month, !.currency = currency,
                !.allCosts = allCosts, !.filteredCosts = filteredCosts,
                !.reportCosts =
                    IF op = "getReport" THEN reportCosts(filteredCosts) ELSE <<>>,
                !.fetchCount0 = fetchCount, !.urlReadCount0 = urlReadCount]
    IN  /\ wrapper
        /\ call.pc \in {"idle", "done"}
        /\ IF NoCosts(filteredCosts)
           THEN call' =
                    [started EXCEPT
                        !.pc = "done", !.status = "resolved",
                        !.value = buildResult(op, year, month, currency,
                                              started.reportCosts, <<>>)]
           ELSE /\ fetchCount < MaxFetches
                /\ call' = [started EXCEPT !.pc = "url", !.status = "pending"]
        /\ UNCHANGED <<norm, dash, dbVersion, objectStoreNames, wrapper, costs, settings,
                       fetchCount, urlReadCount, conv, ret>>

getReport(year, month, currency) == startReport("getReport", year, month, currency)

getPieChartData(year, month, currency) ==
    startReport("getPieChartData", year, month, currency)

getBarChartData(year, currency) == startReport("getBarChartData", year, 0, currency)

\* fetch() called a second time for the same report.
callFetch_twice(readOk) ==
    /\ call.pc = "url"
    /\ call' = [call EXCEPT !.pc = "fetch",
                            !.exchangeUrl = exchangeRatesUrl(settings, readOk)]
    /\ urlReadCount' = urlReadCount + 1
    /\ fetchCount' = fetchCount + 2
    /\ UNCHANGED <<norm, dash, dbVersion, objectStoreNames, wrapper, costs, settings, conv,
                   ret>>

\* getExchangeRatesUrl settles (its settings read succeeded or failed) and
\* fetchAndConvertWithUrl calls fetch(exchangeUrl).
callFetch(readOk) ==
    /\ call.pc = "url"
    /\ call' = [call EXCEPT !.pc = "fetch",
                            !.exchangeUrl = exchangeRatesUrl(settings, readOk)]
    /\ urlReadCount' = urlReadCount + 1
    /\ fetchCount' = fetchCount + 1
    /\ UNCHANGED <<norm, dash, dbVersion, objectStoreNames, wrapper, costs, settings, conv,
                   ret>>

\* The store read a second time when the retrieval settles: the totals are
\* built from the records it holds by then.
receiveResponse_rereads(resp) ==
    /\ call.pc = "fetch"
    /\ LET error == ResponseError(resp)
           costsWithConverted ==
               convertCosts(filterCosts(call.op, costs, call.year, call.month),
                            call.currency, resp.rates)
       IN  call' =
               IF error # "none"
               THEN [call EXCEPT !.pc = "done", !.response = resp,
                                 !.status = "rejected", !.error = error]
               ELSE [call EXCEPT !.pc = "done", !.response = resp,
                                 !.status = "resolved",
                                 !.value = buildResult(call.op, call.year, call.month,
                                                       call.currency, call.reportCosts,
                                                       costsWithConverted)]
    /\ UNCHANGED <<norm, dash, dbVersion, objectStoreNames, wrapper, costs, settings,
                   fetchCount, urlReadCount, conv, ret>>

\* The retrieval settles: fetchAndConvertWithUrl throws or returns the
\* converted costs, and the builder rejects or resolves.
receiveResponse(resp) ==
    /\ call.pc = "fetch"
    /\ LET error == ResponseError(resp)
           costsWithConverted ==
               convertCosts(call.filteredCosts, call.currency, resp.rates)
       IN  call' =
               IF error # "none"
               THEN [call EXCEPT !.pc = "done", !.response = resp,
                                 !.status = "rejected", !.error = error]
               ELSE [call EXCEPT !.pc = "done", !.response = resp,
                                 !.status = "resolved",
                                 !.value = buildResult(call.op, call.year, call.month,
                                                       call.currency, call.reportCosts,
                                                       costsWithConverted)]
    /\ UNCHANGED <<norm, dash, dbVersion, objectStoreNames, wrapper, costs, settings,
                   fetchCount, urlReadCount, conv, ret>>

\* convertCurrency called directly, with the arguments held in conv.
callConvert ==
    /\ conv.fromCurrency # ""
    /\ ~conv.called
    /\ conv' = [conv EXCEPT
                    !.called = TRUE,
                    !.result = convertCurrency(conv.amount, conv.fromCurrency,
                                               conv.toCurrency, conv.rates)]
    /\ UNCHANGED <<norm, dash, dbVersion, objectStoreNames, wrapper, costs, settings, call,
                   fetchCount, urlReadCount, ret>>

Next ==
    \/ openCostsDB
    \/ \E cost \in Drafts, now \in Dates : addCost(cost, now)
    \/ \E key \in SettingKeys, value \in SettingValues : setSetting(key, value)
    \/ \E year \in ReportYears, month \in ReportMonths, currency \in ReportCurrencies :
            getReport(year, month, currency)
    \/ \E year \in ReportYears, month \in ReportMonths, currency \in ReportCurrencies :
            getPieChartData(year, month, currency)
    \/ \E year \in ReportYears, currency \in ReportCurrencies :
            getBarChartData(year, currency)
    \/ \E readOk \in BOOLEAN : callFetch(readOk)
    \/ \E resp \in Responses : receiveResponse(resp)

Spec == Init /\ [][Next]_vars

\* ------------------------------------------- idb.js: reads of the stores

\* The value returned only when it is truthy: result && result.value.
getSettingValue_truthy(settingsArg, key) ==
    IF key \in DOMAIN settingsArg /\ settingsArg[key] # ""
    THEN StringValue(settingsArg[key])
    ELSE Null

\* getSetting: result ? result.value : null, where result is the object
\* {key, value} that store.get(key) finds, undefined when there is none.
getSettingValue(settingsArg, key) ==
    IF key \in DOMAIN settingsArg
    THEN StringValue(settingsArg[key])
    ELSE Null

\* getAllCosts of idb.js: the cursor visits the records in key order and
\* sets cost.id = cursor.key on each value before it pushes it.
withId(cost, key) == ("id" :> key) @@ cost

getAllCostsResult(costsArg) ==
    [i \in DOMAIN costsArg |-> withId(costsArg[i], i)]

\* getAllCosts of the vanilla window.idb: event.target.result || [] of
\* store.getAll(), the stored values as they are.
window_idb_getAllCostsResult(costsArg) == costsArg

getAllCosts ==
    /\ wrapper
    /\ ret' = [op |-> "getAllCosts", costs0 |-> costs, status |-> "resolved",
               value |-> getAllCostsResult(costs)]
    /\ UNCHANGED <<norm, dash, dbVersion, objectStoreNames, wrapper, costs, settings, call,
                   fetchCount, urlReadCount, conv>>

window_idb_getAllCosts ==
    /\ wrapper
    /\ ret' = [op |-> "window.idb.getAllCosts", costs0 |-> costs,
               status |-> "resolved",
               value |-> window_idb_getAllCostsResult(costs)]
    /\ UNCHANGED <<norm, dash, dbVersion, objectStoreNames, wrapper, costs, settings, call,
                   fetchCount, urlReadCount, conv>>

\* The filter taking month for a number from 1 to 12.
costsByMonth_oneBased(allCosts, month, year) ==
    SelectSeq(allCosts, LAMBDA cost :
        getMonth(cost.date) + 1 = month /\ getFullYear(cost.date) = year)

\* getCostsByMonth: allCosts.filter(cost => costDate.getMonth() === month
\* && costDate.getFullYear() === year), month counted from 0.
costsByMonth(allCosts, month, year) ==
    SelectSeq(allCosts, LAMBDA cost :
        getMonth(cost.date) = month /\ getFullYear(cost.date) = year)

\* getCostsByMonth: the filter over what this.getAllCosts() resolves with.
getCostsByMonth(month, year) ==
    /\ wrapper
    /\ ret' = [op |-> "getCostsByMonth", month |-> month, year |-> year,
               costs0 |-> costs, status |-> "resolved",
               value |-> costsByMonth(getAllCostsResult(costs), month, year)]
    /\ UNCHANGED <<norm, dash, dbVersion, objectStoreNames, wrapper, costs, settings, call,
                   fetchCount, urlReadCount, conv>>

\* getCostsByMonth of the vanilla window.idb: the same filter, over what
\* its own getAllCosts resolves with.
window_idb_getCostsByMonth(month, year) ==
    /\ wrapper
    /\ ret' = [op |-> "window.idb.getCostsByMonth", month |-> month,
               year |-> year, costs0 |-> costs, status |-> "resolved",
               value |-> costsByMonth(window_idb_getAllCostsResult(costs),
                                      month, year)]
    /\ UNCHANGED <<norm, dash, dbVersion, objectStoreNames, wrapper, costs, settings, call,
                   fetchCount, urlReadCount, conv>>

\* The months (0 to 11) and years getCostsByMonth is called with.
StoreMonths == {8, 11}

StoreYears == {2025}

\* getSetting: the request succeeds (readOk) and the promise resolves, or it
\* fails and the promise rejects with event.target.error.
getSetting(key, readOk) ==
    /\ wrapper
    /\ ret' = [op |-> "getSetting", key |-> key, readOk |-> readOk,
               settings0 |-> settings,
               status |-> IF readOk THEN "resolved" ELSE "rejected",
               value |-> IF readOk THEN getSettingValue(settings, key) ELSE Null]
    /\ UNCHANGED <<norm, dash, dbVersion, objectStoreNames, wrapper, costs, settings, call,
                   fetchCount, urlReadCount, conv>>

\* getExchangeRatesUrl called directly: its try/catch around the await of
\* getSetting returns an address on both paths.
getExchangeRatesUrl(readOk) ==
    /\ wrapper
    /\ ret' = [op |-> "getExchangeRatesUrl", readOk |-> readOk,
               settings0 |-> settings, status |-> "resolved",
               value |-> exchangeRatesUrl(settings, readOk)]
    /\ UNCHANGED <<norm, dash, dbVersion, objectStoreNames, wrapper, costs, settings, call,
                   fetchCount, urlReadCount, conv>>

\* The keys settings are kept under: the one getExchangeRatesUrl reads, and
\* the one an earlier copy of idb.js read.
StoreSettingKeys == {"exchangeRateUrl", "exchangeRatesUrl"}

StoreNext ==
    \/ openCostsDB
    \/ \E cost \in Drafts, now \in Dates : addCost(cost, now)
    \/ \E key \in StoreSettingKeys, value \in SettingValues : setSetting(key, value)
    \/ getAllCosts
    \/ window_idb_getAllCosts
    \/ \E month \in StoreMonths, year \in StoreYears : getCostsByMonth(month, year)
    \/ \E month \in StoreMonths, year \in StoreYears :
            window_idb_getCostsByMonth(month, year)
    \/ \E key \in StoreSettingKeys, readOk \in BOOLEAN : getSetting(key, readOk)
    \/ \E readOk \in BOOLEAN : getExchangeRatesUrl(readOk)

\* The operations on the two stores called directly, each settled at once.
StoreSpec == Init /\ [][StoreNext]_vars

\* The arguments convertCurrency is called with directly.
ConvAmounts ==
    { Fin(200, 1), Fin(1999, 100), Zero, Fin(-5, 1), NaN, Inf(1), Inf(-1), NonNumber }

ConvCodes == {"USD", "GBP", "EUR", "EURO", "ILS"}

RatesUsdEur == ("USD" :> Fin(1, 1)) @@ ("EUR" :> Fin(9, 10))

RatesBothEuro ==
    ("USD" :> Fin(1, 1)) @@ ("EUR" :> Fin(9, 10)) @@ ("EURO" :> Fin(7, 10))

ConvTables == {RatesFull, RatesUsdGbp, RatesUsdEur, RatesBothEuro, NoRates}

ConvInit ==
    /\ dbVersion = 0
    /\ objectStoreNames = {}
    /\ wrapper = FALSE
    /\ costs = <<>>
    /\ settings = [k \in {} |-> ""]
    /\ call = NoCall
    /\ fetchCount = 0
    /\ urlReadCount = 0
    /\ ret = NoRet
    /\ norm = NoNorm
    /\ dash = NoDash
    /\ conv \in [amount : ConvAmounts, fromCurrency : ConvCodes,
                  toCurrency : ConvCodes, rates : ConvTables,
                  called : {FALSE}, result : {Zero},
                  backCalled : {FALSE}, back : {Zero}]

\* The result converted back: convertCurrency(result, to, from, rates).
callConvertBack ==
    /\ conv.called
    /\ ~conv.backCalled
    /\ conv' = [conv EXCEPT
                    !.backCalled = TRUE,
                    !.back = convertCurrency(conv.result, conv.toCurrency,
                                             conv.fromCurrency, conv.rates)]
    /\ UNCHANGED <<norm, dash, dbVersion, objectStoreNames, wrapper, costs, settings, call,
                   fetchCount, urlReadCount, ret>>

ConvNext ==
    \/ callConvert
    \/ callConvertBack

\* Direct calls of convertCurrency, over all the arguments above.
ConvSpec == ConvInit /\ [][ConvNext]_vars

\* ----------------------------------------------------- what the claims use

\* The builder `op` has resolved (its promise is fulfilled with call.value).
Resolved(op) == call.pc = "done" /\ call.status = "resolved" /\ call.op = op

ReportOps == {"getReport", "getPieChartData", "getBarChartData"}

\* The stored date of a record lies in the month M (1 to 12) of the year Y.
DatedInMonth(cost, Y, M) == cost.date.year = Y /\ cost.date.month = M - 1

DatedInYear(cost, Y) == cost.date.year = Y

\* The record lies in the period the call in `call` was asked for.
InPeriod(cost) ==
    IF call.op = "getBarChartData"
    THEN DatedInYear(cost, call.year)
    ELSE DatedInMonth(cost, call.year, call.month)

\* The records the store held when the call read it that lie in the period:
\* their keys, and the records in key order.
PeriodKeys == { i \in 1..Len(call.allCosts) : InPeriod(call.allCosts[i]) }

PeriodCosts == SelectSeq(call.allCosts, InPeriod)

\* The table the call fetched.
FetchedTable == call.response.rates

Converted(cost) ==
    convertCurrency(cost.sum, cost.currency, call.currency, FetchedTable)

\* The sum of the converted amounts of the records with the keys S.
RECURSIVE SumConverted(_)
SumConverted(S) ==
    IF S = {}
    THEN Zero
    ELSE LET i == CHOOSE k \in S : TRUE
         IN  Add(Converted(call.allCosts[i]), SumConverted(S \ {i}))

\* r is x rounded to two decimals, halves upwards: r = c/100 for the integer
\* c with c - 1/2 <= 100 x < c + 1/2; NaN and the infinities round to themselves.
RoundedTo2(x, r) ==
    IF x.t # "fin"
    THEN r = x
    ELSE /\ r.t = "fin"
         /\ 100 % r.d = 0
         /\ LET c == r.n * (100 \div r.d)
            IN  /\ (2 * c - 1) * x.d <= 200 * x.n
                /\ 200 * x.n < (2 * c + 1) * x.d

\* The period holds exactly the two records of the example: 200 USD and
\* 120 GBP, and the call asks for USD with the table {USD: 1, GBP: 0.6}.
ExampleCase ==
    /\ call.currency = "USD"
    /\ FetchedTable = RatesUsdGbp
    /\ Cardinality(PeriodKeys) = 2
    /\ \E i, j \in PeriodKeys :
          /\ call.allCosts[i].sum = Fin(200, 1) /\ call.allCosts[i].currency = "USD"
          /\ call.allCosts[j].sum = Fin(120, 1) /\ call.allCosts[j].currency = "GBP"

\* ----------------------------------------------------------------- claims

\* C1: a resolved getReport carries total = {currency, total}, where total
\* is the sum of convertCurrency(sum, record currency, target currency,
\* fetched table) over exactly the records dated in the year and month,
\* rounded to two decimals; 200 USD and 120 GBP with {USD: 1, GBP: 0.6} and
\* target USD give 400.
C1_ReportTotal ==
    Resolved("getReport") =>
        /\ DOMAIN call.value.total = {"currency", "total"}
        /\ call.value.total.currency = call.currency
        /\ RoundedTo2(SumConverted(PeriodKeys), call.value.total.total)
        /\ ExampleCase => call.value.total.total = Fin(400, 1)

C1_Witness == Resolved("getReport") /\ ExampleCase

\* C2: every line item of a resolved getReport is the record's sum,
\* currency, category and description as stored, plus date.day only; no
\* line item has a convertedAmount or an amount in the target currency.
C2_LineItemsOriginal ==
    Resolved("getReport") =>
        /\ Len(call.value.costs) = Len(PeriodCosts)
        /\ \A i \in 1..Len(PeriodCosts) :
              LET item == call.value.costs[i]
                  cost == PeriodCosts[i]
              IN  /\ DOMAIN item =
                        {"sum", "currency", "category", "description", "date"}
                  /\ item.sum = cost.sum
                  /\ item.currency = cost.currency
                  /\ item.category = cost.category
                  /\ item.description = cost.description
                  /\ item.date = [day |-> cost.date.day]

\* A line item whose amount differs from its amount in the target currency.
C2_Witness ==
    /\ Resolved("getReport")
    /\ \E i \in 1..Len(PeriodCosts) :
          /\ Converted(PeriodCosts[i]) # PeriodCosts[i].sum
          /\ call.value.costs[i].sum = PeriodCosts[i].sum

\* C3: a record contributes to getReport and getPieChartData iff its stored
\* date has the requested year and month, and to getBarChartData iff it has
\* the requested year: the builder goes on with exactly those records, and
\* its result is the one built from those records alone, in which a record
\* outside the period is no line item, category or month amount.
C3_PeriodFilter ==
    /\ call.pc \in {"url", "fetch", "done"} => call.filteredCosts = PeriodCosts
    /\ \A op \in ReportOps :
          Resolved(op) =>
            /\ call.value =
                  buildResult(op, call.year, call.month, call.currency,
                              reportCosts(PeriodCosts),
                              convertCosts(PeriodCosts, call.currency, FetchedTable))
            /\ op = "getReport" => Len(call.value.costs) = Cardinality(PeriodKeys)
            /\ op = "getPieChartData" =>
                  { call.value[i].category : i \in DOMAIN call.value }
                      = { call.allCosts[k].category : k \in PeriodKeys }
            /\ op = "getBarChartData" =>
                  \A m \in 1..12 :
                      (\A k \in PeriodKeys : call.allCosts[k].date.month # m - 1)
                          => call.value[m].amount = Zero

\* A resolved call over a store holding records in and outside the period.
C3_Witness ==
    /\ call.pc = "done" /\ call.status = "resolved"
    /\ PeriodKeys # {}
    /\ PeriodKeys # 1..Len(call.allCosts)

\* The calls of fetch() and of getExchangeRatesUrl() the call has made.
FetchesOfCall == fetchCount - call.fetchCount0

UrlReadsOfCall == urlReadCount - call.urlReadCount0

\* C4: when no stored record matches the period, the builder reads no
\* setting for the URL and retrieves nothing: it never waits for either,
\* getReport resolves with costs = [] and total 0, and getPieChartData
\* resolves with no entries.
C4_EmptyPeriodNoFetch ==
    (call.pc # "idle" /\ PeriodKeys = {}) =>
        /\ call.pc = "done"
        /\ call.status = "resolved"
        /\ FetchesOfCall = 0
        /\ UrlReadsOfCall = 0
        /\ call.response = NoResponse
        /\ call.op = "getReport" =>
              /\ call.value.costs = <<>>
              /\ call.value.total = [currency |-> call.currency, total |-> Zero]
        /\ call.op = "getPieChartData" => call.value = <<>>

\* An empty period in a store that is not empty, after an earlier retrieval.
C4_Witness ==
    /\ call.pc = "done" /\ PeriodKeys = {} /\ call.allCosts # <<>>
    /\ call.op \in {"getReport", "getPieChartData"}
    /\ fetchCount > 0

\* C5: one call performs at most one retrieval, exactly one when a record
\* matches the period: none before its settings read, one from then on,
\* also after the retrieval failed (no retry), and also when an earlier call
\* has fetched a table already (no reuse).
C5_OneFetchPerCall ==
    /\ call.pc = "url" => FetchesOfCall = 0
    /\ call.pc = "fetch" => FetchesOfCall = 1
    /\ call.pc = "done" => FetchesOfCall = (IF PeriodKeys # {} THEN 1 ELSE 0)
    /\ call.pc = "idle" => fetchCount = 0

\* The second of two calls with matching records has fetched: two retrievals.
C5_Witness ==
    /\ call.pc = "done" /\ PeriodKeys # {}
    /\ call.fetchCount0 = 1 /\ fetchCount = 2

\* The retrieval failed: a transport error, a status that is not a success,
\* or a payload that is no JSON or no object.
FailedRetrieval(resp) ==
    \/ resp.kind \in {"neterr", "http", "badjson"}
    \/ resp.kind = "json" /\ resp.type \in {"null", "number"}

\* The failure each failed retrieval ends with: what fetch() or
\* response.json() threw, or the error fetchAndConvertWithUrl throws itself.
FailureOf(resp) ==
    CASE resp.kind = "neterr" -> "TypeError: Failed to fetch"
      [] resp.kind = "badjson" -> "SyntaxError: Unexpected token"
      [] resp.kind = "http" -> "Failed to fetch exchange rates: HTTP status"
      [] OTHER -> "Invalid exchange rates format received from server"

C7_TwelveMonths ==
    Resolved("getBarChartData") =>
        /\ DOMAIN call.value = 1..12
        /\ \A m \in 1..12 :
              /\ call.value[m].month = m
              /\ call.value[m].currency = call.currency
              /\ (\A k \in PeriodKeys : call.allCosts[k].date.month + 1 # m)
                    => call.value[m].amount = Zero
        /\ \A m \in 1..12 :
              Cardinality({ i \in DOMAIN call.value : call.value[i].month = m }) = 1

\* A year with records in some months only, and one with none at all.
C7_Witness ==
    /\ Resolved("getBarChartData")
    /\ PeriodKeys # {}
    /\ call.value[9].amount # Zero
    /\ call.value[1].amount = Zero

\* The records of the period with the category c.
CategoryKeys(c) == { k \in PeriodKeys : call.allCosts[k].category = c }

\* C8: a resolved getPieChartData has exactly one entry per category that
\* occurs among the records of the period and none for another category;
\* the amount of an entry is the sum of the converted amounts of all the
\* records of its category in the period, rounded to two decimals.
C8_CategorySums ==
    Resolved("getPieChartData") =>
        /\ \A k \in PeriodKeys :
              Cardinality({ i \in DOMAIN call.value :
                              call.value[i].category = call.allCosts[k].category }) = 1
        /\ \A i \in DOMAIN call.value :
              /\ CategoryKeys(call.value[i].category) # {}
              /\ RoundedTo2(SumConverted(CategoryKeys(call.value[i].category)),
                            call.value[i].amount)

\* What does hold of getPieChartData: the sums of C8 whenever no converted
\* amount of the period is NaN (a running total that is NaN is started
\* again from 0 by the test !categoryTotals[cost.category]).
PieSumsWithoutNaN ==
    (/\ Resolved("getPieChartData")
     /\ \A k \in PeriodKeys : Converted(call.allCosts[k]).t # "nan") =>
        \A i \in DOMAIN call.value :
            /\ CategoryKeys(call.value[i].category) # {}
            /\ RoundedTo2(SumConverted(CategoryKeys(call.value[i].category)),
                          call.value[i].amount)

\* The code is present in the normalized table: it is in the table, or it
\* is one of EUR and EURO and the other one is.
PresentNormalized(code, table) ==
    \/ code \in DOMAIN table
    \/ code \in {"EUR", "EURO"} /\ {"EUR", "EURO"} \cap DOMAIN table # {}

\* convertCurrency was called with two different codes of which one is
\* absent from the normalized table.
ConvertedWithAbsentCode ==
    /\ conv.called
    /\ conv.fromCurrency # conv.toCurrency
    /\ \/ ~PresentNormalized(conv.fromCurrency, conv.rates)
       \/ ~PresentNormalized(conv.toCurrency, conv.rates)

\* C9 as stated: with different codes of which one is absent from the
\* normalized table, convertCurrency returns the amount unchanged, whatever
\* the amount is.
C9_AbsentCodeAnyAmount == ConvertedWithAbsentCode => conv.result = conv.amount

\* C9 as amended: with different codes of which one is absent from the
\* normalized table, convertCurrency returns every finite amount unchanged.
C9_AbsentCodeFiniteAmount ==
    (ConvertedWithAbsentCode /\ conv.amount.t = "fin") => conv.result = conv.amount

\* A finite amount other than 0 whose target code is absent.
C9_Witness ==
    /\ ConvertedWithAbsentCode
    /\ conv.amount = Fin(200, 1)
    /\ PresentNormalized(conv.fromCurrency, conv.rates)
    /\ conv.result = Fin(200, 1)

\* The report side of C9: a getReport whose target currency is absent from
\* the fetched table resolves, and its total counts every record of the
\* period in another currency at its stored sum, 0 for a sum that is NaN.
Unconverted(cost) ==
    IF cost.currency = call.currency \/ cost.sum.t = "fin" THEN cost.sum ELSE Zero

RECURSIVE SumUnconverted(_)
SumUnconverted(S) ==
    IF S = {}
    THEN Zero
    ELSE LET i == CHOOSE k \in S : TRUE
         IN  Add(Unconverted(call.allCosts[i]), SumUnconverted(S \ {i}))

ReportWithAbsentTarget ==
    (/\ call.pc = "done" /\ call.op = "getReport"
     /\ call.response.kind = "json" /\ call.response.type = "object"
     /\ ~PresentNormalized(call.currency, FetchedTable)) =>
        /\ call.status = "resolved"
        /\ RoundedTo2(SumUnconverted(PeriodKeys), call.value.total.total)

\* C10: with different codes, convertCurrency returns 0 for every amount
\* that is not a finite number: NaN, an infinity, or no number at all.
C10_NonFiniteIsZero ==
    (conv.called /\ conv.fromCurrency # conv.toCurrency /\ conv.amount.t # "fin")
        => conv.result = Zero

\* What does hold of convertCurrency: with different codes it returns 0 for
\* NaN and for an amount that is no number; an infinity passes the test
\* typeof amount !== 'number' || isNaN(amount).
NaNAndNonNumberAreZero ==
    (conv.called /\ conv.fromCurrency # conv.toCurrency
        /\ conv.amount.t \in {"nan", "str"}) => conv.result = Zero

\* The setting 'exchangeRateUrl' as the store held it when the last store
\* operation read the settings: absent, or the string stored.
StoredUrlAbsent == "exchangeRateUrl" \notin DOMAIN ret.settings0

StoredUrl == ret.settings0["exchangeRateUrl"]

\* C11: getExchangeRatesUrl always resolves with an address (a string that
\* is not empty) and never rejects; the address is the built-in default
\* when the setting 'exchangeRateUrl' is absent, when it is stored as the
\* empty string, and when the read of the settings fails.
C11_UrlAlwaysResolves ==
    ret.op = "getExchangeRatesUrl" =>
        /\ ret.status = "resolved"
        /\ ret.value # ""
        /\ StoredUrlAbsent => ret.value = DEFAULT_EXCHANGE_URL
        /\ (~StoredUrlAbsent /\ StoredUrl = "") => ret.value = DEFAULT_EXCHANGE_URL
        /\ ~ret.readOk => ret.value = DEFAULT_EXCHANGE_URL

\* The three cases: a failed read over a stored custom address, the empty
\* string stored, and no setting stored.
C11_Witness ==
    /\ ret.op = "getExchangeRatesUrl"
    /\ ret.value = DEFAULT_EXCHANGE_URL
    /\ \/ ~ret.readOk /\ ~StoredUrlAbsent /\ StoredUrl = CUSTOM_URL
       \/ ret.readOk /\ ~StoredUrlAbsent /\ StoredUrl = ""

\* The value last put under 'exchangeRateUrl' is v.
SettingIs(v) ==
    "exchangeRateUrl" \in DOMAIN settings /\ settings["exchangeRateUrl"] = v

\* The step in which a report build that needs rates resolves the address
\* and calls fetch with it.
UrlReadStep == call.pc = "url" /\ call'.pc = "fetch"

\* C12 as stated: while the value last put under 'exchangeRateUrl' is a
\* non-empty U, every report build that needs rates retrieves them from U;
\* while it is the empty string, from the default address.
C12_CustomUrlAlways ==
    [][UrlReadStep =>
          /\ \A U \in SettingValues \ {""} :
                SettingIs(U) => call'.exchangeUrl = U
          /\ SettingIs("") => call'.exchangeUrl = DEFAULT_EXCHANGE_URL]_vars

\* C12 as amended: the same for every build whose read of the setting
\* succeeds; a build whose read fails retrieves from the default address,
\* whatever is stored.
C12_CustomUrlWhenRead ==
    [][\A readOk \in BOOLEAN :
          callFetch(readOk) =>
              /\ \A U \in SettingValues \ {""} :
                    (readOk /\ SettingIs(U)) => call'.exchangeUrl = U
              /\ SettingIs("") => call'.exchangeUrl = DEFAULT_EXCHANGE_URL
              /\ ~readOk => call'.exchangeUrl = DEFAULT_EXCHANGE_URL]_vars

\* The second build after a custom address was stored still fetches from it.
C12_Witness ==
    /\ call.pc = "fetch"
    /\ call.exchangeUrl = CUSTOM_URL
    /\ SettingIs(CUSTOM_URL)
    /\ call.fetchCount0 = 1

\* The payload is a flat mapping from currency code to number.
FlatRates(resp) ==
    /\ resp.kind = "json" /\ resp.type = "object"
    /\ \A code \in DOMAIN resp.rates : resp.rates[code].t = "fin"

FormatError == "Invalid exchange rates format received from server"

\* C13: a report build whose fetched payload parses but is not a flat
\* mapping from currency code to number (it is no object, or a value of it
\* is no number) rejects with the format error and has no result.
C13_FormatError ==
    (/\ call.pc = "done"
     /\ call.response.kind = "json"
     /\ ~FlatRates(call.response)) =>
        /\ call.status = "rejected"
        /\ call.error = FormatError
        /\ call.value = NoCall.value

\* What does hold of the format check: a payload that is null or no object
\* rejects the build with the format error; every object passes it.
NonObjectIsFormatError ==
    (call.pc = "done" /\ call.response.kind = "json") =>
        IF call.response.type = "object"
        THEN call.status = "resolved"
        ELSE /\ call.status = "rejected"
             /\ call.error = FormatError
             /\ call.value = NoCall.value

\* The last store operation was an addCost, and it resolved.
Added == ret.op = "addCost" /\ ret.status = "resolved"

\* What addCost resolved with has the caller's four fields and the date of
\* creation, as the record stored under the key assigned has them.
ResultHasStoredFields ==
    /\ {"sum", "currency", "category", "description", "date"} \subseteq DOMAIN ret.value
    /\ ret.value.sum = ret.cost.sum
    /\ ret.value.currency = ret.cost.currency
    /\ ret.value.category = ret.cost.category
    /\ ret.value.description = ret.cost.description
    /\ ret.value.date = ret.now
    /\ \A f \in {"sum", "currency", "category", "description", "date"} :
          ret.value[f] = costs[ret.key][f]

\* C14 as stated: a successful addCost resolves with the stored record with
\* both generated fields, the id newly assigned and the creation date,
\* together with sum, currency, category and description.
C14_ResultWithIdAndDate ==
    Added =>
        /\ ResultHasStoredFields
        /\ "id" \in DOMAIN ret.value
        /\ ret.value.id = ret.key

\* C14 as amended: a successful addCost resolves with sum, currency,
\* category and description as stored and with the creation date, and with
\* nothing else: the id assigned is not in what it resolves with.
C14_ResultWithDateOnly ==
    Added =>
        /\ ResultHasStoredFields
        /\ DOMAIN ret.value = {"sum", "currency", "category", "description", "date"}

\* The second record added, by a caller who passed a date of its own.
C14_Witness ==
    /\ Added
    /\ ret.key = 2
    /\ "date" \in DOMAIN ret.cost
    /\ "id" \notin DOMAIN ret.value
    /\ ret.value = costs[2]

\* The caller of the last addCost passed a date of its own, another one
\* than the clock showed.
CallerDated == "date" \in DOMAIN ret.cost /\ ret.cost.date # ret.now

\* C15: the record addCost stores has sum, currency, category and
\* description exactly as the caller supplied them, and as its date what
\* the clock showed at the call, whatever date the caller supplied; the
\* report builders filter on that stored date.
C15_VerbatimFieldsClockDate ==
    /\ Added =>
          LET stored == costs[ret.key]
          IN  /\ DOMAIN stored =
                    {"sum", "currency", "category", "description", "date"}
              /\ stored.sum = ret.cost.sum
              /\ stored.currency = ret.cost.currency
              /\ stored.category = ret.cost.category
              /\ stored.description = ret.cost.description
              /\ stored.date = ret.now
    /\ call.pc # "idle" =>
          call.filteredCosts = SelectSeq(call.allCosts, InPeriod)

\* A record in GBP whose caller dated it January 2024, stored in September
\* 2025, is a line item of the resolved report of September 2025.
C15_Witness ==
    /\ Added /\ CallerDated
    /\ ret.cost.currency = "GBP"
    /\ Resolved("getReport")
    /\ ret.key \in PeriodKeys
    /\ ~DatedInYear(ret.cost, call.year)
    /\ \E i \in DOMAIN call.value.costs :
          call.value.costs[i].description = ret.cost.description

\* The keys of the costs store and the record under each key.
CostKeys == DOMAIN costs

\* C16: over every step of openCostsDB, addCost, setSetting and the report
\* builders, every record stored stays under its key (its id) with its
\* date and its caller-supplied fields unchanged and none is removed; a
\* step that stores a record stores one, under a key no record was ever
\* given before.  The ids of the stored records, as getAllCosts hands them
\* out, are pairwise distinct.
C16_IdsUniqueRecordsImmutable ==
    /\ [](\A i, j \in CostKeys :
            getAllCostsResult(costs)[i].id = getAllCostsResult(costs)[j].id
                => i = j)
    /\ [][/\ CostKeys \subseteq DOMAIN costs'
          /\ \A k \in CostKeys : costs'[k] = costs[k]
          /\ Cardinality(DOMAIN costs' \ CostKeys) <= 1
          /\ costs' # costs =>
                /\ ret'.op = "addCost"
                /\ ret'.key \in DOMAIN costs' \ CostKeys
                /\ \A k \in CostKeys : ret'.key > k]_vars

\* Two records are stored, a setting was put and a report was built.
C16_Witness ==
    /\ Len(costs) = 2
    /\ costs[1] = costs[2]
    /\ ret.key = 2
    /\ SettingIs(CUSTOM_URL)
    /\ call.pc = "done"
    /\ "id" \notin DOMAIN costs[1]

\* The last store operation was a getAllCosts of one of the two wrappers.
GotAllCosts == ret.op \in {"getAllCosts", "window.idb.getAllCosts"}

\* C17: getAllCosts returns every record of the store exactly once, each
\* with the key the store assigned to it as its id: the ids of the
\* sequence returned are defined and pairwise distinct.
C17_AllCostsWithIds ==
    GotAllCosts =>
        /\ Len(ret.value) = Len(ret.costs0)
        /\ \A k \in DOMAIN ret.costs0 :
              Cardinality({ i \in DOMAIN ret.value :
                              /\ "id" \in DOMAIN ret.value[i]
                              /\ ret.value[i].id = k
                              /\ \A f \in DOMAIN ret.costs0[k] :
                                    ret.value[i][f] = ret.costs0[k][f] }) = 1
        /\ \A i, j \in DOMAIN ret.value :
              /\ "id" \in DOMAIN ret.value[i]
              /\ (i # j => ret.value[i].id # ret.value[j].id)

\* What does hold: the getAllCosts of idb.js returns the records with their
\* keys as ids, and the getAllCosts of the vanilla window.idb returns every
\* record once, in key order, without an id.
AllCostsOfEachWrapper ==
    /\ ret.op = "getAllCosts" =>
          /\ Len(ret.value) = Len(ret.costs0)
          /\ \A k \in DOMAIN ret.costs0 :
                /\ ret.value[k].id = k
                /\ \A f \in DOMAIN ret.costs0[k] :
                      ret.value[k][f] = ret.costs0[k][f]
    /\ ret.op = "window.idb.getAllCosts" =>
          /\ ret.value = ret.costs0
          /\ \A k \in DOMAIN ret.value : "id" \notin DOMAIN ret.value[k]

\* The last store operation was a getSetting that resolved.
GotSetting == ret.op = "getSetting" /\ ret.status = "resolved"

\* C18: a getSetting(k) that resolves gives the value of the last
\* setSetting(k, v) completed, the empty string too, and null when no
\* setSetting for k has completed; a setSetting on one key changes the
\* value kept under no other key, and puts its value under its own.
C18_LastWriteWins ==
    /\ [](GotSetting =>
            IF ret.key \in DOMAIN ret.settings0
            THEN ret.value = StringValue(ret.settings0[ret.key])
            ELSE ret.value = Null)
    /\ [][\A key \in StoreSettingKeys, value \in SettingValues :
            setSetting(key, value) =>
                /\ key \in DOMAIN settings' /\ settings'[key] = value
                /\ \A other \in StoreSettingKeys \ {key} :
                      /\ other \in DOMAIN settings' <=> other \in DOMAIN settings
                      /\ other \in DOMAIN settings =>
                            settings'[other] = settings[other]]_vars
    /\ [][settings' # settings =>
            \E key \in StoreSettingKeys, value \in SettingValues :
                setSetting(key, value)]_vars
    /\ [][(ret' # ret /\ ret'.op = "getSetting") => ret'.settings0 = settings]_vars

\* The empty string read back for one key while the other key holds a
\* custom address.
C18_Witness ==
    /\ GotSetting
    /\ ret.key = "exchangeRateUrl"
    /\ ret.value = StringValue("")
    /\ "exchangeRatesUrl" \in DOMAIN ret.settings0
    /\ ret.settings0["exchangeRatesUrl"] = CUSTOM_URL

\* The database exists at the version openCostsDB asks for.
Initialized == dbVersion = DB_VERSION

\* C19: openCostsDB on a database that is initialized already leaves every
\* cost record and every setting as they are and the two collections as
\* they are; an openCostsDB creates a collection only when it is absent,
\* so that there is one costs and one settings collection from the first
\* open on.
C19_ReopenKeepsData ==
    /\ [](Initialized => objectStoreNames = {"costs", "settings"})
    /\ [][openCostsDB =>
            /\ costs' = costs
            /\ settings' = settings
            /\ objectStoreNames \subseteq objectStoreNames'
            /\ objectStoreNames' \ objectStoreNames
                  = {"costs", "settings"} \ objectStoreNames
            /\ Initialized => objectStoreNames' = objectStoreNames]_vars
    /\ [][Initialized =>
            /\ objectStoreNames' = objectStoreNames
            /\ dbVersion' = dbVersion]_vars

\* An initialized database with records and a setting, where every further
\* openCostsDB resolves and changes nothing.
C19_Witness ==
    /\ Initialized /\ wrapper
    /\ objectStoreNames = {"costs", "settings"}
    /\ Len(costs) = 2
    /\ SettingIs("")
    /\ call.pc = "idle"

\* The records stored after the call in `call` read the store.
AddedAfterRead == { k \in DOMAIN costs : k > Len(call.allCosts) }

\* C20: a report builder reads the costs store once, when it starts, and
\* works on what it read until it settles.  A record whose addCost completes
\* after that read is in no line item and in no total: every result is the
\* one built from the records read, the line items and the total of a
\* report from the same records.
C20_SingleRead ==
    /\ [][(call.pc \in {"idle", "done"} /\ call' # call) =>
            call'.allCosts = costs]_vars
    /\ [][call.pc \in {"url", "fetch"} =>
            /\ call'.allCosts = call.allCosts
            /\ call'.filteredCosts = call.filteredCosts
            /\ call'.reportCosts = call.reportCosts]_vars
    /\ [](\A op \in ReportOps :
            Resolved(op) =>
              /\ call.value =
                    buildResult(op, call.year, call.month, call.currency,
                                reportCosts(PeriodCosts),
                                convertCosts(PeriodCosts, call.currency,
                                             FetchedTable))
              /\ op = "getReport" =>
                    /\ Len(call.value.costs) = Cardinality(PeriodKeys)
                    /\ RoundedTo2(SumConverted(PeriodKeys),
                                  call.value.total.total))

\* A record of the period was added while the rates were retrieved; the
\* report resolved without it.
C20_Witness ==
    /\ Resolved("getReport")
    /\ PeriodKeys # {}
    /\ \E k \in AddedAfterRead :
          /\ DatedInMonth(costs[k], call.year, call.month)
          /\ costs[k].sum = Fin(200, 1)
          /\ costs[k].currency = call.currency
    /\ Len(call.value.costs) < Len(filterCosts("getReport", costs, call.year, call.month))

\* ------------------------------------- normalizeRates called directly

\* The argument object after normalizeRates has written into it.
argumentAfterNormalize_inPlace(rates) == normalizeRates(rates)

\* The argument object after the call: the function writes only into the
\* copy { ...rates }, never into rates.
argumentAfterNormalize(rates) == rates

\* The currency codes and values of the tables normalizeRates is called with.
NormCodes == {"USD", "EUR", "EURO"}

NormValues == { Fin(1, 1), Fin(9, 10), Fin(7, 10) }

\* Every table over a subset of the codes.
NormTables == UNION { [S -> NormValues] : S \in SUBSET NormCodes }

NormInit ==
    /\ dbVersion = 0
    /\ objectStoreNames = {}
    /\ wrapper = FALSE
    /\ costs = <<>>
    /\ settings = [k \in {} |-> ""]
    /\ call = NoCall
    /\ fetchCount = 0
    /\ urlReadCount = 0
    /\ conv = NoConv
    /\ ret = NoRet
    /\ dash = NoDash
    /\ norm \in { [called |-> FALSE, rates0 |-> t, rates |-> t,
                   result |-> NoRates, again |-> FALSE, result2 |-> NoRates] :
                  t \in NormTables }

\* normalized = normalizeRates(rates), with rates the caller's object.
callNormalize ==
    /\ "rates" \in DOMAIN norm
    /\ ~norm.called
    /\ norm' = [norm EXCEPT
                    !.called = TRUE,
                    !.rates = argumentAfterNormalize(norm.rates),
                    !.result = normalizeRates(norm.rates)]
    /\ UNCHANGED <<dbVersion, objectStoreNames, wrapper, costs, settings, call,
                   fetchCount, urlReadCount, conv, ret, dash>>

\* normalizeRates applied to its own result.
callNormalizeAgain ==
    /\ norm.called
    /\ ~norm.again
    /\ norm' = [norm EXCEPT
                    !.again = TRUE,
                    !.result2 = normalizeRates(norm.result)]
    /\ UNCHANGED <<dbVersion, objectStoreNames, wrapper, costs, settings, call,
                   fetchCount, urlReadCount, conv, ret, dash>>

NormNext ==
    \/ callNormalize
    \/ callNormalizeAgain

\* Direct calls of normalizeRates, over all the tables above.
NormSpec == NormInit /\ [][NormNext]_vars

\* C21: normalizeRates leaves its argument as it was; in its result EUR and
\* EURO hold the same value when exactly one of them was given, each keeps
\* its own value when both were given, the result is the argument when
\* neither was given, and every other code keeps its value.
C21_NormalizeAliases ==
    norm.called =>
        LET r == norm.rates0
            n == norm.result
        IN  /\ norm.rates = r
            /\ (Has(r, "EUR") /\ ~Has(r, "EURO")) =>
                    /\ DOMAIN n = DOMAIN r \cup {"EURO"}
                    /\ n["EUR"] = r["EUR"]
                    /\ n["EURO"] = r["EUR"]
            /\ (Has(r, "EURO") /\ ~Has(r, "EUR")) =>
                    /\ DOMAIN n = DOMAIN r \cup {"EUR"}
                    /\ n["EURO"] = r["EURO"]
                    /\ n["EUR"] = r["EURO"]
            /\ (Has(r, "EUR") /\ Has(r, "EURO")) => n = r
            /\ (~Has(r, "EUR") /\ ~Has(r, "EURO")) => n = r
            /\ \A c \in DOMAIN r : Has(n, c) /\ (c \notin {"EUR", "EURO"} => n[c] = r[c])
            /\ DOMAIN n \subseteq DOMAIN r \cup {"EUR", "EURO"}

\* Normalized: both spellings given with different values, next to another
\* code.
C21_Witness ==
    /\ norm.called
    /\ Has(norm.rates0, "USD")
    /\ Has(norm.rates0, "EUR")
    /\ Has(norm.rates0, "EURO")
    /\ norm.rates0["EUR"] # norm.rates0["EURO"]
    /\ norm.result["EURO"] = norm.rates0["EURO"]

\* A table with one spelling only has been normalized.
OneSpellingNormalized ==
    /\ norm.called
    /\ Has(norm.rates0, "EURO")
    /\ ~Has(norm.rates0, "EUR")
    /\ norm.result["EUR"] = norm.rates0["EURO"]

\* C22: normalizing a normalized table changes nothing.
C22_NormalizeIdempotent ==
    norm.again => norm.result2 = norm.result

\* Normalized twice: a table the first normalization added a code to, and
\* a table holding both spellings with different values.
C22_Witness ==
    /\ norm.again
    /\ norm.result # norm.rates0

C22_WitnessBoth ==
    /\ norm.again
    /\ Has(norm.rates0, "EUR")
    /\ Has(norm.rates0, "EURO")
    /\ norm.rates0["EUR"] # norm.rates0["EURO"]

\* A finite number greater than zero.
Positive(x) == x.t = "fin" /\ x.n > 0

\* The round trip the claim is about: a finite amount, both codes in the
\* normalized table, with positive rates.
RoundTripCase ==
    /\ conv.backCalled
    /\ conv.amount.t = "fin"
    /\ PresentNormalized(conv.fromCurrency, conv.rates)
    /\ PresentNormalized(conv.toCurrency, conv.rates)
    /\ Positive(normalizeRates(conv.rates)[conv.fromCurrency])
    /\ Positive(normalizeRates(conv.rates)[conv.toCurrency])

\* C23: converting a finite amount from A to B and the result back from B
\* to A, with one table holding positive rates for both, returns the
\* amount; each conversion is amount / rate[from] * rate[to].
C23_RoundTrip ==
    RoundTripCase =>
        LET n == normalizeRates(conv.rates)
        IN  /\ conv.result = Mul(Div(conv.amount, n[conv.fromCurrency]),
                                 n[conv.toCurrency])
            /\ conv.back = Mul(Div(conv.result, n[conv.toCurrency]),
                               n[conv.fromCurrency])
            /\ conv.back = conv.amount

\* Converted there and back between two currencies with different rates.
C23_Witness ==
    /\ RoundTripCase
    /\ conv.fromCurrency # conv.toCurrency
    /\ conv.result # conv.amount
    /\ conv.back = conv.amount
    /\ normalizeRates(conv.rates)[conv.fromCurrency] # Fin(1, 1)

\* C25: a builder that resolved a custom address and whose retrieval from
\* it failed does not fail: it retrieves from the default address and
\* resolves.
C25_FallsBackToDefault ==
    (/\ call.pc = "done"
     /\ call.exchangeUrl = CUSTOM_URL
     /\ FailedRetrieval(call.response)) =>
        /\ call.status = "resolved"
        /\ FetchesOfCall = 2

\* What the code does in that case: one retrieval, and the rejection.
CustomFailureRejects ==
    (/\ call.pc = "done"
     /\ call.exchangeUrl = CUSTOM_URL
     /\ FailedRetrieval(call.response)) =>
        /\ call.status = "rejected"
        /\ FetchesOfCall = 1

\* A record without the id getAllCosts attached to it.
WithoutId(cost) == [f \in DOMAIN cost \ {"id"} |-> cost[f]]

GotCostsByMonth == ret.op = "getCostsByMonth" /\ ret.status = "resolved"

\* C28: getCostsByMonth(m, y), m counted from 0, selects the records of the
\* store that the filter of getReport(y, m + 1, c) and of
\* getPieChartData(y, m + 1, c) selects, in the same order.
C28_MonthFilterAgrees ==
    GotCostsByMonth =>
        LET selected == [i \in DOMAIN ret.value |-> WithoutId(ret.value[i])]
        IN  /\ selected = filterCosts("getReport", ret.costs0, ret.year,
                                      ret.month + 1)
            /\ selected = filterCosts("getPieChartData", ret.costs0, ret.year,
                                      ret.month + 1)
            /\ \A i \in DOMAIN ret.value :
                    /\ ret.value[i].id \in DOMAIN ret.costs0
                    /\ ret.costs0[ret.value[i].id] = selected[i]

\* getCostsByMonth has selected one of two stored records.
C28_Witness ==
    /\ GotCostsByMonth
    /\ Len(ret.costs0) = 2
    /\ Len(ret.value) = 1
    /\ ret.value[1].id = 2

\* What getReport(Y, M, c) resolves with on the store and the table of the
\* call: its filter, its conversion and its total.
ReportOnSameData(Y, M, c) ==
    LET filtered == filterCosts("getReport", call.allCosts, Y, M)
    IN  buildReport(Y, M, c, reportCosts(filtered),
                    IF NoCosts(filtered)
                    THEN <<>>
                    ELSE convertCosts(filtered, c, FetchedTable))

\* The converted costs of the call.
ConvertedOfCall ==
    IF NoCosts(call.filteredCosts)
    THEN <<>>
    ELSE convertCosts(call.filteredCosts, call.currency, FetchedTable)

RECURSIVE SumOfKeys(_, _)
SumOfKeys(keys, value) ==
    IF keys = <<>> THEN Zero ELSE Add(value[Head(keys)], SumOfKeys(Tail(keys), value))

\* The bar chart against the reports: entry M is the total of the report
\* of month M.
BarEqualsReports ==
    Resolved("getBarChartData") =>
        \A M \in 1..12 :
            call.value[M].amount =
                ReportOnSameData(call.year, M, call.currency).total.total

\* The pie chart against the report: the category totals before rounding
\* add up to the total of the report before rounding.
PieAddsUpToReport ==
    Resolved("getPieChartData") =>
        LET totals == categoryTotals(ConvertedOfCall, EmptyObject)
        IN  /\ \A i \in DOMAIN call.value :
                  call.value[i].amount = Round2(totals.value[totals.keys[i]])
            /\ SumOfKeys(totals.keys, totals.value) =
                  reduceTotal(ConvertedOfCall, Zero)

\* C30: for the same store, year, currency and table, entry M of
\* getBarChartData is the total of getReport for month M, for M from 1 to
\* 12; and the category totals of getPieChartData, before rounding, add up
\* to the total of getReport before rounding.
C30_ChartsAgreeWithReport ==
    /\ BarEqualsReports
    /\ PieAddsUpToReport

\* The pie chart adds up whenever no converted amount of the period is NaN.
PieAddsUpWithoutNaN ==
    (/\ Resolved("getPieChartData")
     /\ \A i \in DOMAIN ConvertedOfCall : ConvertedOfCall[i].convertedAmount.t # "nan") =>
        LET totals == categoryTotals(ConvertedOfCall, EmptyObject)
        IN  SumOfKeys(totals.keys, totals.value) = reduceTotal(ConvertedOfCall, Zero)

\* A bar chart over a year with converted records has resolved.
BarWithConvertedRecords ==
    /\ Resolved("getBarChartData")
    /\ \E M \in 1..12 : call.value[M].amount.t = "fin" /\ call.value[M].amount.n > 0
    /\ \E i \in DOMAIN call.filteredCosts : call.filteredCosts[i].currency # call.currency

\* C24: called on the same store, an operation of the React wrapper and
\* the operation of that name of the vanilla window.idb resolve with the
\* same result.  addCost, getReport, getPieChartData, getBarChartData,
\* setSetting, getSetting and getExchangeRatesUrl are the same code in both
\* files and are one definition here; getAllCosts and getCostsByMonth are
\* not.
C24_WrappersAgree ==
    /\ ret.op = "getAllCosts" =>
            ret.value = window_idb_getAllCostsResult(ret.costs0)
    /\ ret.op = "window.idb.getAllCosts" =>
            ret.value = getAllCostsResult(ret.costs0)
    /\ ret.op = "getCostsByMonth" =>
            ret.value = costsByMonth(window_idb_getAllCostsResult(ret.costs0),
                                     ret.month, ret.year)
    /\ ret.op = "window.idb.getCostsByMonth" =>
            ret.value = costsByMonth(getAllCostsResult(ret.costs0),
                                     ret.month, ret.year)

\* What does hold of the two wrappers: they select the same records in the
\* same order, and differ in the id only.
WrappersAgreeUpToId ==
    /\ ret.op \in {"getAllCosts", "window.idb.getAllCosts"} =>
            /\ Len(ret.value) = Len(ret.costs0)
            /\ \A i \in DOMAIN ret.value : WithoutId(ret.value[i]) = ret.costs0[i]
    /\ ret.op \in {"getCostsByMonth", "window.idb.getCostsByMonth"} =>
            [i \in DOMAIN ret.value |-> WithoutId(ret.value[i])] =
                costsByMonth(ret.costs0, ret.month, ret.year)

\* ------------------------------------------------------------ Dashboard.jsx

\* The store the Dashboard reads: a record of September 2025 and one of
\* December 2025.
DashCosts ==
    << [sum |-> Fin(200, 1), currency |-> "USD", category |-> "FOOD",
        description |-> "Milk 3%", date |-> Date(2025, 8, 12)],
       [sum |-> Fin(120, 1), currency |-> "GBP", category |-> "Education",
        description |-> "Zoom License", date |-> Date(2025, 11, 18)] >>

\* The values of the three filters: month (0 to 11), year, currency.
DashMonths == {8, 11}

DashYears == {2024, 2025}

DashCurrencies == {"USD", "GBP"}

\* What a retrieval of rates is answered with while the Dashboard runs.
DashResponses ==
    { [kind |-> "json", type |-> "object", rates |-> RatesUsdGbp],
      [kind |-> "http", type |-> "none", rates |-> NoRates] }

\* The error a failed request on the store ends with.
StoreError == "Error reading the object store"

\* fetchAndConvertWithUrl(db, costs, currency) as one settled call: no
\* retrieval for no costs, otherwise the rejection of a failed retrieval or
\* the converted costs.
fetchAndConvert(costsArg, currency, resp) ==
    IF NoCosts(costsArg)
    THEN [status |-> "resolved", value |-> <<>>, error |-> "none"]
    ELSE IF ResponseError(resp) # "none"
    THEN [status |-> "rejected", value |-> <<>>, error |-> ResponseError(resp)]
    ELSE [status |-> "resolved",
          value |-> convertCosts(costsArg, currency, resp.rates),
          error |-> "none"]

\* getPieChartData and getBarChartData as one settled call on the store.
chartData(op, year, month, currency, readOk, resp) ==
    IF ~readOk
    THEN [status |-> "rejected", value |-> <<>>, error |-> StoreError]
    ELSE LET converted ==
                 fetchAndConvert(filterCosts(op, costs, year, month), currency, resp)
         IN  IF converted.status = "rejected"
             THEN converted
             ELSE [status |-> "resolved",
                   value |-> buildResult(op, year, month, currency, <<>>,
                                         converted.value),
                   error |-> "none"]

\* calculateTotal: the sum of the converted amounts; 0 from its catch when
\* the database does not open or the conversion fails.
calculateTotal(monthlyCostsArg, currency, openOk, resp) ==
    LET converted == fetchAndConvert(monthlyCostsArg, currency, resp)
    IN  IF ~openOk \/ converted.status = "rejected"
        THEN Zero
        ELSE reduceTotal(converted.value, Zero)

\* setError(`Failed to load data: ${err.message}`)
loadError(message) == StringValue(message)

\* A call of loadData at its first await, with the filters of its render.
LoadTask(month, year, currency) ==
    [pc |-> "open", month |-> month, year |-> year, currency |-> currency,
     monthCostsData |-> <<>>]

\* A call of updateTotal awaiting calculateTotal, with the monthlyCosts and
\* the displayCurrency of its render.
TotalTask(monthlyCostsArg, currency) ==
    [pc |-> "open", monthlyCosts |-> monthlyCostsArg, currency |-> currency]

\* The effect on [monthlyCosts, displayCurrency]: updateTotal() sets the
\* total to 0 for no costs and otherwise awaits calculateTotal().
updateTotal(d, monthlyCostsArg, currency) ==
    IF Len(monthlyCostsArg) > 0
    THEN [d EXCEPT !.totals = @ \cup {TotalTask(monthlyCostsArg, currency)}]
    ELSE [d EXCEPT !.monthlyTotal = Zero]

\* The effect on the filters: loadData() up to its first await.
startLoad(d, month, year, currency) ==
    [d EXCEPT !.loading = TRUE,
              !.error = Null,
              !.loads = @ \cup {LoadTask(month, year, currency)},
              !.loadCount = @ + 1]

\* catch and finally of loadData, and the end of the call t.
failLoad(d, t, message) ==
    [d EXCEPT !.error = loadError(message),
              !.loading = FALSE,
              !.loads = @ \ {t}]

\* App renders <Dashboard/>: the state of a new instance after its two
\* effects have run.  The calls of an earlier instance set state on an
\* unmounted component, which does nothing.
mountDashboard ==
    /\ dash.loadCount < MaxLoads
    /\ \E month \in DashMonths, year \in DashYears :
          dash' = [mounted |-> TRUE,
                   selectedMonth |-> month,
                   selectedYear |-> year,
                   displayCurrency |-> "USD",
                   monthlyCosts |-> <<>>,
                   allCosts |-> <<>>,
                   categoryData |-> <<>>,
                   monthlyData |-> <<>>,
                   loading |-> TRUE,
                   error |-> Null,
                   monthlyTotal |-> Zero,
                   loads |-> {LoadTask(month, year, "USD")},
                   totals |-> {},
                   unhandled |-> FALSE,
                   loadCount |-> dash.loadCount + 1]
    /\ UNCHANGED <<norm, dbVersion, objectStoreNames, wrapper, costs, settings, call,
                   fetchCount, urlReadCount, conv, ret>>

\* The filters are rendered only while loading is false.
FiltersShown == dash.mounted /\ ~dash.loading /\ dash.loadCount < MaxLoads

setSelectedMonth(month) ==
    /\ FiltersShown
    /\ month # dash.selectedMonth
    /\ dash' = startLoad([dash EXCEPT !.selectedMonth = month],
                         month, dash.selectedYear, dash.displayCurrency)
    /\ UNCHANGED <<norm, dbVersion, objectStoreNames, wrapper, costs, settings, call,
                   fetchCount, urlReadCount, conv, ret>>

setSelectedYear(year) ==
    /\ FiltersShown
    /\ year # dash.selectedYear
    /\ dash' = startLoad([dash EXCEPT !.selectedYear = year],
                         dash.selectedMonth, year, dash.displayCurrency)
    /\ UNCHANGED <<norm, dbVersion, objectStoreNames, wrapper, costs, settings, call,
                   fetchCount, urlReadCount, conv, ret>>

\* Both effects depend on displayCurrency.
setDisplayCurrency(currency) ==
    /\ FiltersShown
    /\ currency # dash.displayCurrency
    /\ dash' = updateTotal(
                   startLoad([dash EXCEPT !.displayCurrency = currency],
                             dash.selectedMonth, dash.selectedYear, currency),
                   dash.monthlyCosts, currency)
    /\ UNCHANGED <<norm, dbVersion, objectStoreNames, wrapper, costs, settings, call,
                   fetchCount, urlReadCount, conv, ret>>

\* onClose of the Alert, which is rendered while error is set.
closeError ==
    /\ dash.mounted
    /\ ~dash.loading
    /\ dash.error # Null
    /\ dash' = [dash EXCEPT !.error = Null]
    /\ UNCHANGED <<norm, dbVersion, objectStoreNames, wrapper, costs, settings, call,
                   fetchCount, urlReadCount, conv, ret>>

\* loadData: await openCostsDB(...) settles.  The await stands before the
\* try, so a rejection ends the call with nothing caught.
loadOpened(t, openOk) ==
    /\ dash.mounted
    /\ t \in dash.loads
    /\ t.pc = "open"
    /\ dash' = IF openOk
               THEN [dash EXCEPT !.loads = (@ \ {t}) \cup {[t EXCEPT !.pc = "read"]}]
               ELSE [dash EXCEPT !.loads = @ \ {t}, !.unhandled = TRUE]
    /\ UNCHANGED <<norm, dbVersion, objectStoreNames, wrapper, costs, settings, call,
                   fetchCount, urlReadCount, conv, ret>>

\* loadData: Promise.all([getAllCosts(), getCostsByMonth(...)]) settles.
loadRead(t, readOk) ==
    /\ dash.mounted
    /\ t \in dash.loads
    /\ t.pc = "read"
    /\ dash' =
          IF readOk
          THEN [dash EXCEPT
                   !.allCosts = getAllCostsResult(costs),
                   !.loads = (@ \ {t}) \cup
                       {[t EXCEPT !.pc = "convert",
                                  !.monthCostsData =
                                      costsByMonth(getAllCostsResult(costs),
                                                   t.month, t.year)]}]
          ELSE failLoad(dash, t, StoreError)
    /\ UNCHANGED <<norm, dbVersion, objectStoreNames, wrapper, costs, settings, call,
                   fetchCount, urlReadCount, conv, ret>>

\* loadData: fetchAndConvertWithUrl(db, monthCostsData, displayCurrency)
\* settles; setMonthlyCosts runs the effect on monthlyCosts.
loadConverted(t, resp) ==
    /\ dash.mounted
    /\ t \in dash.loads
    /\ t.pc = "convert"
    /\ LET converted == fetchAndConvert(t.monthCostsData, t.currency, resp)
       IN  dash' =
              IF converted.status = "resolved"
              THEN updateTotal(
                       [dash EXCEPT
                           !.monthlyCosts = converted.value,
                           !.loads = (@ \ {t}) \cup {[t EXCEPT !.pc = "pie"]}],
                       converted.value, dash.displayCurrency)
              ELSE failLoad(dash, t, converted.error)
    /\ UNCHANGED <<norm, dbVersion, objectStoreNames, wrapper, costs, settings, call,
                   fetchCount, urlReadCount, conv, ret>>

\* loadData: getPieChartData(selectedYear, selectedMonth + 1, ...) settles.
loadPie(t, readOk, resp) ==
    /\ dash.mounted
    /\ t \in dash.loads
    /\ t.pc = "pie"
    /\ LET data == chartData("getPieChartData", t.year, t.month + 1, t.currency,
                             readOk, resp)
       IN  dash' =
              IF data.status = "resolved"
              THEN [dash EXCEPT
                       !.categoryData = data.value,
                       !.loads = (@ \ {t}) \cup {[t EXCEPT !.pc = "bar"]}]
              ELSE failLoad(dash, t, data.error)
    /\ UNCHANGED <<norm, dbVersion, objectStoreNames, wrapper, costs, settings, call,
                   fetchCount, urlReadCount, conv, ret>>

\* loadData: getBarChartData(selectedYear, ...) settles, then finally.
loadBar(t, readOk, resp) ==
    /\ dash.mounted
    /\ t \in dash.loads
    /\ t.pc = "bar"
    /\ LET data == chartData("getBarChartData", t.year, t.month + 1, t.currency,
                             readOk, resp)
       IN  dash' =
              IF data.status = "resolved"
              THEN [dash EXCEPT
                       !.monthlyData = data.value,
                       !.loading = FALSE,
                       !.loads = @ \ {t}]
              ELSE failLoad(dash, t, data.error)
    /\ UNCHANGED <<norm, dbVersion, objectStoreNames, wrapper, costs, settings, call,
                   fetchCount, urlReadCount, conv, ret>>

\* updateTotal: await calculateTotal() settles, then setMonthlyTotal(total).
totalCalculated(t, openOk, resp) ==
    /\ dash.mounted
    /\ t \in dash.totals
    /\ dash' = [dash EXCEPT
                   !.monthlyTotal =
                       calculateTotal(t.monthlyCosts, t.currency, openOk, resp),
                   !.totals = @ \ {t}]
    /\ UNCHANGED <<norm, dbVersion, objectStoreNames, wrapper, costs, settings, call,
                   fetchCount, urlReadCount, conv, ret>>

\* A pending promise of the Dashboard settles.
DashSettle ==
    \/ \E t \in dash.loads, openOk \in BOOLEAN : loadOpened(t, openOk)
    \/ \E t \in dash.loads, readOk \in BOOLEAN : loadRead(t, readOk)
    \/ \E t \in dash.loads, resp \in DashResponses : loadConverted(t, resp)
    \/ \E t \in dash.loads, readOk \in BOOLEAN, resp \in DashResponses :
            loadPie(t, readOk, resp)
    \/ \E t \in dash.loads, readOk \in BOOLEAN, resp \in DashResponses :
            loadBar(t, readOk, resp)
    \/ \E t \in dash.totals, openOk \in BOOLEAN, resp \in DashResponses :
            totalCalculated(t, openOk, resp)

DashInit ==
    /\ dbVersion = DB_VERSION
    /\ objectStoreNames = {"costs", "settings"}
    /\ wrapper = TRUE
    /\ costs = DashCosts
    /\ settings = [k \in {} |-> ""]
    /\ call = NoCall
    /\ fetchCount = 0
    /\ urlReadCount = 0
    /\ conv = NoConv
    /\ ret = NoRet
    /\ norm = NoNorm
    /\ dash = NoDash

DashNext ==
    \/ mountDashboard
    \/ \E month \in DashMonths : setSelectedMonth(month)
    \/ \E year \in DashYears : setSelectedYear(year)
    \/ \E currency \in DashCurrencies : setDisplayCurrency(currency)
    \/ closeError
    \/ DashSettle

\* The Dashboard over a store of two records.
DashSpec == DashInit /\ [][DashNext]_vars

\* Every request on the database and every retrieval settles.
DashLiveSpec == DashSpec /\ WF_vars(DashSettle)

\* No call of loadData and no total computation is in flight.
Quiescent == dash.mounted /\ dash.loads = {} /\ dash.totals = {}

\* The sum of the converted amounts of the records displayed.
DisplayedSum == reduceTotal(dash.monthlyCosts, Zero)

\* A step in which the retrieval of rates for the month's records fails in
\* loadData, and one in which it fails in calculateTotal.
LoadRetrievalFails ==
    \E t \in dash.loads, resp \in DashResponses :
        /\ loadConverted(t, resp)
        /\ fetchAndConvert(t.monthCostsData, t.currency, resp).status = "rejected"

TotalRetrievalFails ==
    \E t \in dash.totals, resp \in DashResponses :
        /\ totalCalculated(t, TRUE, resp)
        /\ fetchAndConvert(t.monthlyCosts, t.currency, resp).status = "rejected"

\* C26: a retrieval of rates that fails, for the records of the selected
\* month or for their total, leaves the Dashboard with an error set; with
\* nothing in flight the Dashboard never shows a total of 0 and no error
\* next to one or more records.
C26_FailureShowsError ==
    /\ [][(LoadRetrievalFails \/ TotalRetrievalFails) => dash'.error # Null]_vars
    /\ [](Quiescent /\ Len(dash.monthlyCosts) > 0 /\ dash.monthlyTotal = Zero
            => dash.error # Null)

\* What does hold: a failure inside loadData's try sets the error and ends
\* the loading.
LoadFailureShowsError ==
    [][LoadRetrievalFails => dash'.error # Null /\ ~dash'.loading]_vars

\* The failure of the total's retrieval alone never leaves an error.
TotalFailureShowsError ==
    [][TotalRetrievalFails => dash'.error # Null]_vars

\* C29: with no loadData and no total computation in flight, monthlyTotal
\* is the sum of convertedAmount over the monthlyCosts displayed, 0 for
\* none.
C29_TotalMatchesDisplayed ==
    Quiescent => dash.monthlyTotal = DisplayedSum

\* C27: after every call of loadData the Dashboard stops loading.
C27_LoadingEnds ==
    [](dash.mounted /\ dash.loading => <>(~dash.loading))

\* What does hold: the loading ends unless the opening of the database
\* failed, which ends loadData before its try.
LoadingEndsUnlessOpenFails ==
    [](dash.mounted /\ dash.loading => <>(~dash.loading \/ dash.unhandled))

\* At most one call of loadData is in flight, and loading is true while it is.
OneLoadInFlight ==
    /\ Cardinality(dash.loads) <= 1
    /\ dash.loads # {} => dash.loading

====
